---------------------------- MODULE Spec2Model ----------------------------
(* A model of scanner/scan.py: the BLE beacon decoder, the fan-out to the   *)
(* observer callback and the Kafka producer, and the scan loop with its     *)
(* module-level state (_scanning_active, _gui_callback, KAFKA_BROKER,       *)
(* KAFKA_TOPIC), driven by scan_ble_devices() invocations and by the        *)
(* controller calls stop_scanning(), reload_config(), set_gui_callback().   *)
(* Threads interleave between the statements the actions stand for.         *)
EXTENDS Integers, Sequences, FiniteSets, TLC

(***************************************************************************)
(* Bounds of the model.                                                    *)
(***************************************************************************)
MaxRuns == 2        \* scan_ble_devices() invocations started in one behaviour
MaxCycles == 2      \* discovery cycles of one invocation
MaxReloads == 1     \* reload_config() calls in one behaviour
MaxStopRun == 2     \* stop_scanning() calls made in a row
MaxCallbackSets == 1 \* set_gui_callback() calls in one behaviour
MaxBrokerFlips == 1 \* times the Kafka broker goes down or comes back
MaxPayloadLen == 25 \* longest manufacturer-data payload given to the decoder

Loops == {1, 2}     \* the invocation slots (threads running a scan loop)

(***************************************************************************)
(* Byte sequences, indexed from 0 as in Python.                            *)
(***************************************************************************)
Min(a, b) == IF a < b THEN a ELSE b

At(data, j) == data[j + 1]

Slice(data, a, b) ==
    LET hi == Min(b, Len(data))
    IN  IF hi <= a THEN << >> ELSE [k \in 1..(hi - a) |-> data[a + k]]

HexDigits == <<"0", "1", "2", "3", "4", "5", "6", "7",
               "8", "9", "a", "b", "c", "d", "e", "f">>

RECURSIVE Hex(_)
Hex(bs) ==
    IF bs = << >> THEN << >>
    ELSE <<HexDigits[(Head(bs) \div 16) + 1], HexDigits[(Head(bs) % 16) + 1]>>
         \o Hex(Tail(bs))

UuidStr(bs) ==
    LET h == Hex(bs)
    IN  SubSeq(h, 1, 8) \o <<"-">> \o SubSeq(h, 9, 12) \o <<"-">>
        \o SubSeq(h, 13, 16) \o <<"-">> \o SubSeq(h, 17, 20) \o <<"-">>
        \o SubSeq(h, 21, 32)

\* int.from_bytes(..., byteorder='little').
FromBytesBigMutant(bs) == bs[1] + 256 * bs[2]

\* Lines 212-213: int.from_bytes(..., byteorder='big') of two bytes.
FromBytesBig(bs) == 256 * bs[1] + bs[2]

IsAscii(bs) == \A k \in 1..Len(bs) : bs[k] < 128

UrlSchemes == <<"http://www.", "https://www.", "http://", "https://">>

(***************************************************************************)
(* The decoder: the if/elif chain of the inner loop of scan_ble_devices.   *)
(* type "none": no branch produced an event; type "error": the branch      *)
(* raised and its except clause swallowed the exception.                   *)
(***************************************************************************)
NoRecord == [type |-> "none"]
DecodeFailed == [type |-> "error"]

DecodeIBeacon(data) ==
    IF At(data, 0) = 2 /\ At(data, 1) = 21
    THEN [type |-> "iBeacon",
          uuid |-> UuidStr(Slice(data, 2, 18)),
          major |-> FromBytesBig(Slice(data, 18, 20)),
          minor |-> FromBytesBig(Slice(data, 20, 22)),
          tx_power |-> IF At(data, 22) > 127 THEN At(data, 22) - 256
                       ELSE At(data, 22)]
    ELSE NoRecord

DecodeEddystone(data) ==
    IF At(data, 0) = 170 /\ At(data, 1) = 254
    THEN IF At(data, 2) = 0
         THEN [type |-> "Eddystone-UID",
               namespace |-> Hex(Slice(data, 3, 13)),
               instance |-> Hex(Slice(data, 13, 19))]
         ELSE IF At(data, 2) = 16
         THEN IF At(data, 3) >= Len(UrlSchemes) THEN DecodeFailed
              ELSE IF ~IsAscii(Slice(data, 4, Len(data))) THEN DecodeFailed
              ELSE [type |-> "Eddystone-URL",
                    url |-> <<UrlSchemes[At(data, 3) + 1]>>
                            \o Slice(data, 4, Len(data))]
         ELSE NoRecord
    ELSE NoRecord

DecodeAltBeacon(data) ==
    [type |-> "AltBeacon", beacon_id |-> Hex(Slice(data, 2, 22))]

\* A fallback branch that takes payloads of 20 bytes or more.
DecodeMutant(company_code, data) ==
    IF company_code = 76 /\ Len(data) >= 23 THEN DecodeIBeacon(data)
    ELSE IF company_code = 170 /\ Len(data) >= 20 THEN DecodeEddystone(data)
    ELSE IF Len(data) >= 20 THEN DecodeAltBeacon(data)
    ELSE NoRecord

\* Lines 205, 235, 278: the if/elif chain.
Decode(company_code, data) ==
    IF company_code = 76 /\ Len(data) >= 23 THEN DecodeIBeacon(data)
    ELSE IF company_code = 170 /\ Len(data) >= 20 THEN DecodeEddystone(data)
    ELSE IF Len(data) >= 24 THEN DecodeAltBeacon(data)
    ELSE NoRecord

IsEvent(rec) == rec.type \notin {"none", "error"}

\* A chain whose fallback is an if of its own, not an elif.
EventsOfMutant(company_code, data) ==
    (IF IsEvent(Decode(company_code, data))
     THEN <<Decode(company_code, data)>> ELSE << >>)
    \o (IF (company_code = 76 \/ company_code = 170) /\ Len(data) >= 24
        THEN <<DecodeAltBeacon(data)>> ELSE << >>)

\* Lines 227, 254, 270, 291: the process_beacon calls made for one item,
\* in order; the branches are the arms of one if/elif chain.
EventsOf(company_code, data) ==
    IF IsEvent(Decode(company_code, data))
    THEN <<Decode(company_code, data)>> ELSE << >>


(***************************************************************************)
(* Sample advertisements: what BleakScanner.discover() may return.         *)
(***************************************************************************)
IBeaconData == <<2, 21>> \o [k \in 1..16 |-> 16 + k] \o <<1, 2, 3, 4, 197, 0>>
EddystoneUidData == <<170, 254, 0>> \o [k \in 1..16 |-> k] \o <<0>>
EddystoneUrlData(scheme, c) == <<170, 254, 16, scheme>> \o [k \in 1..16 |-> c]
AltBeaconData == [k \in 1..24 |-> k]
ShortData == <<1, 2, 3>>

Entry(company_code, data) == [company_code |-> company_code, data |-> data]

NoItem == Entry(0, << >>)
NotDecoded == [type |-> "pending"]

\* Payloads for the decoder alone: bytes 0-3 from head, bytes 18-22 from
\* tail, every other byte different from its neighbours.
Payload(len, head, tail) ==
    [k \in 1..len |-> IF k <= 4 THEN head[k]
                      ELSE IF k \in 19..23 THEN tail[k - 18]
                      ELSE 64 + k]

PayloadLens == {3} \cup (19..MaxPayloadLen)

PayloadHeads == {<<2, 21, 1, 2>>, <<2, 0, 1, 2>>, <<170, 254, 0, 7>>,
                 <<170, 254, 16, 1>>, <<170, 254, 16, 4>>,
                 <<170, 254, 32, 0>>, <<0, 0, 0, 0>>}

PayloadTails == {<<hi, lo, lo, hi, tx>> :
                    hi \in {0, 1, 255}, lo \in {0, 255},
                    tx \in {0, 127, 128, 255}}

CompanyCodes == {76, 170, 280, 0}

Items == {Entry(cc, Payload(len, head, tail)) :
             cc \in CompanyCodes, len \in PayloadLens,
             head \in PayloadHeads, tail \in PayloadTails}

\* A discovered device: the items of metadata['manufacturer_data'] in dict
\* order; raises = reading its attributes (lines 197, 200) raises.
Device(mdata) == [raises |-> FALSE, manufacturer_data |-> mdata]
BrokenDevice == [raises |-> TRUE, manufacturer_data |-> << >>]

Batches ==
    { << >>,
      << Device(<<Entry(170, EddystoneUrlData(4, 101)), Entry(76, IBeaconData),
                  Entry(280, AltBeaconData)>>),
         Device(<<Entry(170, EddystoneUrlData(1, 101))>>) >>,
      << Device(<<Entry(170, EddystoneUrlData(0, 200)), Entry(280, ShortData)>>),
         Device(<< >>),
         Device(<<Entry(170, EddystoneUidData)>>),
         BrokenDevice >> }

(***************************************************************************)
(* Configuration: load_config() and the os.environ.get() overrides.        *)
(***************************************************************************)
Unset == "<unset>"

\* The process environment: neither KAFKA_BROKER nor KAFKA_TOPIC is set.
Environ == [KAFKA_BROKER |-> Unset, KAFKA_TOPIC |-> Unset]

EnvironGet(name, default) ==
    IF Environ[name] = Unset THEN default ELSE Environ[name]

DefaultConfig == [broker |-> "localhost:9092", topic |-> "ble_beacons"]
FileConfig == [broker |-> "broker-a:9092", topic |-> "topic_a"]

\* What load_config() can return: the defaults (no file, or a file that
\* config.read() could not read) or the file's [kafka] section.
LoadConfigResults == {DefaultConfig, FileConfig}

\* What load_config() can find at ~/.ble/config.conf: no file, a file with
\* a [kafka] section, or a file config.read() raises on.
ConfigFiles == {"absent", "custom", "unparsable"}

\* Lines 29-61: the defaults of lines 34-37 are overridden by what
\* config.read() parsed; the except clause of line 50 prints the exception
\* and the function returns the config object in every case.
load_config(file) == IF file = "custom" THEN FileConfig ELSE DefaultConfig

\* Line 335: reload_config() ends with "return config".
ReloadReturn(cfg) == [raised |-> FALSE, value |-> cfg]

NoReturn == [raised |-> FALSE, value |-> Unset]

NoCallback == "None"
Callbacks == {"observer", "raising_observer"}
CallbackRaises(cb) == cb = "raising_observer"

NoProducer == [some |-> FALSE, broker |-> Unset, closed |-> 0]

NoSnapshot == [broker |-> Unset, topic |-> Unset, callback |-> NoCallback]

VARIABLES
    _scanning_active,   \* module global, line 20
    _gui_callback,      \* module global, line 17
    config,             \* module global, line 64
    KAFKA_BROKER,       \* module global, line 67
    KAFKA_TOPIC,        \* module global, line 68
    kafkaUp,            \* environment: the broker accepts connections and sends
    rl_pc,              \* position of the thread inside reload_config()
    reloads,            \* reload_config() calls so far
    runs,               \* scan_ble_devices() calls so far
    stopRun,            \* stop_scanning() calls made in a row
    cbSets,             \* set_gui_callback() calls so far
    flips,              \* changes of kafkaUp so far
    pc,                 \* per invocation: position in scan_ble_devices()
    producer,           \* per invocation: local producer
    scan_count,         \* per invocation: local scan_count
    devices,            \* per invocation: local devices
    di,                 \* per invocation: index of the device being processed
    ei,                 \* per invocation: index of the entry being processed
    guiLog,             \* per invocation: calls made to the observer callback
    kafkaLog,           \* per invocation: producer.send() calls made
    raised,             \* per invocation: an exception propagates to the caller
    cause,              \* per invocation: why the loop was left
    startSnap,          \* per invocation: broker, topic, observer when it began
    stopAt,             \* per invocation: where a stop call landed this cycle
    config_file,        \* the file as the last load_config() call found it
    rl_ret,             \* what the last reload_config() call gave its caller
    item,               \* a (company_code, data) item taken at line 201
    beacon              \* what the if/elif chain made of item

counters == <<cbSets, flips>>
files == <<config_file, rl_ret>>
decoding == <<item, beacon>>
globals == <<_scanning_active, _gui_callback, config, KAFKA_BROKER, KAFKA_TOPIC>>
locals == <<pc, producer, scan_count, devices, di, ei, raised, cause>>
logs == <<guiLog, kafkaLog>>
vars == <<_scanning_active, _gui_callback, config, KAFKA_BROKER, KAFKA_TOPIC,
          kafkaUp, rl_pc, reloads, runs, stopRun, cbSets, flips, pc, producer,
          scan_count,
          devices, di, ei, guiLog, kafkaLog, raised, cause, startSnap, stopAt,
          config_file, rl_ret, item, beacon>>

\* The module as imported (lines 16-68), no scan_ble_devices() call made.
Imported ==
    /\ _scanning_active = FALSE
    /\ _gui_callback = NoCallback
    /\ config_file \in ConfigFiles
    /\ config = load_config(config_file)
    /\ rl_ret = NoReturn
    /\ KAFKA_BROKER = EnvironGet("KAFKA_BROKER", config.broker)
    /\ KAFKA_TOPIC = EnvironGet("KAFKA_TOPIC", config.topic)
    /\ kafkaUp \in BOOLEAN
    /\ rl_pc = "idle"
    /\ reloads = 0
    /\ runs = 0
    /\ stopRun = 0
    /\ cbSets = 0
    /\ flips = 0
    /\ pc = [i \in Loops |-> "idle"]
    /\ producer = [i \in Loops |-> NoProducer]
    /\ scan_count = [i \in Loops |-> 0]
    /\ devices = [i \in Loops |-> << >>]
    /\ di = [i \in Loops |-> 0]
    /\ ei = [i \in Loops |-> 0]
    /\ guiLog = [i \in Loops |-> << >>]
    /\ kafkaLog = [i \in Loops |-> << >>]
    /\ raised = [i \in Loops |-> FALSE]
    /\ cause = [i \in Loops |-> "none"]
    /\ startSnap = [i \in Loops |-> NoSnapshot]
    /\ stopAt = [i \in Loops |-> "none"]

\* No manufacturer-data item is under examination.
Init ==
    /\ Imported
    /\ item = NoItem
    /\ beacon = NotDecoded

(***************************************************************************)
(* process_beacon_data: the fan-out of one event to the two sinks.         *)
(***************************************************************************)
\* A callback exception that leaves process_beacon_data.
SendReachedMutant(callbackRaised) == ~callbackRaised

\* Lines 129-132: the except clause swallows whatever the callback raised,
\* so line 137 is reached whether or not the callback raised.
SendReached(callbackRaised) == TRUE

\* Lines 124-134: the callback is the global read at the time of the event.
GuiDeliver(log, ev) ==
    IF _gui_callback # NoCallback
    THEN Append(log, [ev |-> ev, callback |-> _gui_callback])
    ELSE log

\* A send attempted whether or not there is a producer.
KafkaDeliverUnguardedMutant(log, prod, ev) ==
    Append(log, [ev |-> ev, topic |-> KAFKA_TOPIC, raised |-> ~kafkaUp])

\* A producer that hands over the newest message first.
KafkaDeliverMutant(log, prod, ev) ==
    IF prod.some
    THEN <<[ev |-> ev, topic |-> KAFKA_TOPIC, raised |-> ~kafkaUp]>> \o log
    ELSE log

\* Lines 137-146: the topic is the global read at the time of the send; a
\* send or flush that raises is swallowed by line 143.
KafkaDeliver(log, prod, ev) ==
    IF prod.some /\ SendReached(_gui_callback # NoCallback
                                /\ CallbackRaises(_gui_callback))
    THEN Append(log, [ev |-> ev, topic |-> KAFKA_TOPIC, raised |-> ~kafkaUp])
    ELSE log

RECURSIVE GuiDeliverEach(_, _)
GuiDeliverEach(log, evs) ==
    IF evs = << >> THEN log
    ELSE GuiDeliverEach(GuiDeliver(log, Head(evs)), Tail(evs))

RECURSIVE KafkaDeliverEach(_, _, _)
KafkaDeliverEach(log, prod, evs) ==
    IF evs = << >> THEN log
    ELSE KafkaDeliverEach(KafkaDeliver(log, prod, Head(evs)), prod, Tail(evs))

\* The message of lines 112-121, reduced to what identifies it: the cycle,
\* the device and entry it comes from, and the decoded fields.
Event(cycle, d, e, rec) == [cycle |-> cycle, d |-> d, e |-> e, data |-> rec]

(***************************************************************************)
(* scan_ble_devices(), one action per statement group.                     *)
(***************************************************************************)
\* The call itself: the coroutine starts with fresh locals.
Start(i) ==
    /\ pc[i] \in {"idle", "done"}
    /\ runs < MaxRuns
    /\ runs' = runs + 1
    /\ pc' = [pc EXCEPT ![i] = "setup"]
    /\ producer' = [producer EXCEPT ![i] = NoProducer]
    /\ scan_count' = [scan_count EXCEPT ![i] = 0]
    /\ devices' = [devices EXCEPT ![i] = << >>]
    /\ di' = [di EXCEPT ![i] = 0]
    /\ ei' = [ei EXCEPT ![i] = 0]
    /\ guiLog' = [guiLog EXCEPT ![i] = << >>]
    /\ kafkaLog' = [kafkaLog EXCEPT ![i] = << >>]
    /\ raised' = [raised EXCEPT ![i] = FALSE]
    /\ cause' = [cause EXCEPT ![i] = "none"]
    /\ startSnap' = [startSnap EXCEPT
                       ![i] = NoSnapshot]
    /\ stopAt' = [stopAt EXCEPT ![i] = "none"]
    /\ stopRun' = 0
    /\ UNCHANGED files
    /\ UNCHANGED decoding
    /\ UNCHANGED <<counters, globals, kafkaUp, rl_pc, reloads>>

\* Lines 70-82: KafkaProducer(bootstrap_servers=[KAFKA_BROKER]) or None.
create_kafka_producer ==
    IF kafkaUp THEN [some |-> TRUE, broker |-> KAFKA_BROKER, closed |-> 0]
    ELSE NoProducer

\* Lines 162-172.
Setup(i) ==
    /\ pc[i] = "setup"
    /\ producer' = [producer EXCEPT ![i] = create_kafka_producer]
    /\ startSnap' = [startSnap EXCEPT
                       ![i] = [broker |-> KAFKA_BROKER, topic |-> KAFKA_TOPIC,
                               callback |-> NoCallback]]
    /\ pc' = [pc EXCEPT ![i] = "activate"]
    /\ stopRun' = 0
    /\ UNCHANGED files
    /\ UNCHANGED decoding
    /\ UNCHANGED <<counters, globals, kafkaUp, rl_pc, reloads, runs,
                   scan_count, devices, di, ei, logs, raised, cause, stopAt>>

\* Line 177: the flag is set whatever its value and whoever else is running;
\* a stop that landed in another loop's discovery window is overwritten.
Activate(i) ==
    /\ pc[i] = "activate"
    /\ _scanning_active' = TRUE
    /\ pc' = [pc EXCEPT ![i] = "head"]
    /\ stopAt' = [j \in Loops |->
                    IF stopAt[j] # "none" THEN "rearmed" ELSE "none"]
    /\ stopRun' = 0
    /\ UNCHANGED files
    /\ UNCHANGED decoding
    /\ startSnap' = [startSnap EXCEPT ![i].callback = _gui_callback]
    /\ UNCHANGED <<counters, _gui_callback, config, KAFKA_BROKER, KAFKA_TOPIC, kafkaUp,
                   rl_pc, reloads, runs, producer, scan_count, devices, di, ei,
                   logs, raised, cause>>

\* A loop head that does not look at the flag.
ContinuesAtHeadMutant(active) == TRUE

\* Line 181: the while condition.
ContinuesAtHead(active) == active

\* Lines 181-183: the loop-head checkpoint.
LoopHead(i) ==
    /\ pc[i] = "head"
    /\ IF ContinuesAtHead(_scanning_active)
       THEN /\ scan_count[i] < MaxCycles
            /\ scan_count' = [scan_count EXCEPT ![i] = @ + 1]
            /\ pc' = [pc EXCEPT ![i] = "discover"]
            /\ stopAt' = [stopAt EXCEPT ![i] = "none"]
            /\ UNCHANGED cause
       ELSE /\ pc' = [pc EXCEPT ![i] = "finally"]
            /\ cause' = [cause EXCEPT ![i] = "stop_head"]
            /\ UNCHANGED <<scan_count, stopAt>>
    /\ stopRun' = 0
    /\ UNCHANGED files
    /\ UNCHANGED decoding
    /\ UNCHANGED <<counters, globals, kafkaUp, rl_pc, reloads, runs, producer, devices,
                   di, ei, logs, raised, startSnap>>

\* Line 186: the await returns a batch.
DiscoverReturns(i) ==
    /\ pc[i] = "discover"
    /\ \E b \in Batches : devices' = [devices EXCEPT ![i] = b]
    /\ pc' = [pc EXCEPT ![i] = "check"]
    /\ stopRun' = 0
    /\ UNCHANGED files
    /\ UNCHANGED decoding
    /\ UNCHANGED <<counters, globals, kafkaUp, rl_pc, reloads, runs, producer, scan_count,
                   di, ei, logs, raised, cause, startSnap, stopAt>>

\* Line 186 raises; lines 305-308 print the exception and do not re-raise.
ReraisesError == FALSE

DiscoverFails(i) ==
    /\ pc[i] = "discover"
    /\ pc' = [pc EXCEPT ![i] = "finally"]
    /\ cause' = [cause EXCEPT ![i] = "source_error"]
    /\ raised' = [raised EXCEPT ![i] = ReraisesError]
    /\ stopRun' = 0
    /\ UNCHANGED files
    /\ UNCHANGED decoding
    /\ UNCHANGED <<counters, globals, kafkaUp, rl_pc, reloads, runs, producer, scan_count,
                   devices, di, ei, logs, startSnap, stopAt>>

\* The task is cancelled at one of its awaits (lines 186, 301); lines
\* 302-304 re-raise CancelledError.
Cancelled(i) ==
    /\ pc[i] \in {"discover", "sleep"}
    /\ pc' = [pc EXCEPT ![i] = "finally"]
    /\ cause' = [cause EXCEPT ![i] = "cancelled"]
    /\ raised' = [raised EXCEPT ![i] = TRUE]
    /\ stopRun' = 0
    /\ UNCHANGED files
    /\ UNCHANGED decoding
    /\ UNCHANGED <<counters, globals, kafkaUp, rl_pc, reloads, runs, producer, scan_count,
                   devices, di, ei, logs, startSnap, stopAt>>

\* Lines 190-192: the checkpoint after discovery.
\* A loop that does not look at the flag again after the await.
BreaksAfterDiscoveryMutant(active) == FALSE

BreaksAfterDiscovery(active) == ~active

PostDiscoveryCheck(i) ==
    /\ pc[i] = "check"
    /\ IF BreaksAfterDiscovery(_scanning_active)
       THEN /\ pc' = [pc EXCEPT ![i] = "finally"]
            /\ cause' = [cause EXCEPT ![i] = "stop_check"]
            /\ UNCHANGED <<di, ei>>
       ELSE /\ pc' = [pc EXCEPT ![i] =
                        IF devices[i] = << >> THEN "sleep" ELSE "process"]
            /\ di' = [di EXCEPT ![i] = 1]
            /\ ei' = [ei EXCEPT ![i] = 0]
            /\ UNCHANGED cause
    /\ stopRun' = 0
    /\ UNCHANGED files
    /\ UNCHANGED decoding
    /\ UNCHANGED <<counters, globals, kafkaUp, rl_pc, reloads, runs, producer, scan_count,
                   devices, logs, raised, startSnap, stopAt>>

\* Lines 196-200: the next device of the batch; reading a device that raises
\* leaves the loop through line 305.
ProcessDevice(i) ==
    /\ pc[i] = "process"
    /\ ei[i] = 0
    /\ LET dev == devices[i][di[i]]
       IN  IF dev.raises
           THEN /\ pc' = [pc EXCEPT ![i] = "finally"]
                /\ cause' = [cause EXCEPT ![i] = "processing_error"]
                /\ raised' = [raised EXCEPT ![i] = ReraisesError]
                /\ UNCHANGED <<di, ei>>
           ELSE /\ IF dev.manufacturer_data # << >>
                   THEN /\ ei' = [ei EXCEPT ![i] = 1]
                        /\ UNCHANGED <<di, pc>>
                   ELSE /\ di' = [di EXCEPT ![i] = @ + 1]
                        /\ pc' = [pc EXCEPT ![i] =
                                    IF di[i] = Len(devices[i])
                                    THEN "sleep" ELSE "process"]
                        /\ UNCHANGED ei
                /\ UNCHANGED <<cause, raised>>
    /\ stopRun' = 0
    /\ UNCHANGED files
    /\ UNCHANGED decoding
    /\ UNCHANGED <<counters, globals, kafkaUp, rl_pc, reloads, runs, producer, scan_count,
                   devices, logs, startSnap, stopAt>>

\* Lines 201-296: one manufacturer-data entry is decoded and, if it yields
\* an event, handed to process_beacon_data; then the iteration moves on.
\* A decoding exception that leaves the for loops.
ContinuesAfterMutant(rec) == rec.type # "error"

\* Lines 229-232, 272-275, 293-296: the except clause of each branch prints
\* the exception, so the for loops go on whatever the entry decoded to.
ContinuesAfter(rec) == TRUE

\* A for loop that looks at the flag before each entry.
ChecksFlagMidBatchMutant(active) == ~active

\* Lines 196-296: nothing inside the two for loops reads _scanning_active.
ChecksFlagMidBatch(active) == FALSE

ProcessEntry(i) ==
    /\ pc[i] = "process"
    /\ ei[i] >= 1
    /\ LET dev == devices[i][di[i]]
           entry == dev.manufacturer_data[ei[i]]
           rec == Decode(entry.company_code, entry.data)
           recs == EventsOf(entry.company_code, entry.data)
           evs == [k \in 1..Len(recs) |->
                     Event(scan_count[i], di[i], ei[i], recs[k])]
           lastEntry == ei[i] = Len(dev.manufacturer_data)
           lastDevice == di[i] = Len(devices[i])
       IN  IF ChecksFlagMidBatch(_scanning_active)
           THEN /\ pc' = [pc EXCEPT ![i] = "finally"]
                /\ cause' = [cause EXCEPT ![i] = "stop_check"]
                /\ UNCHANGED <<di, ei, logs>>
           ELSE /\ guiLog' = [guiLog EXCEPT ![i] = GuiDeliverEach(@, evs)]
                /\ kafkaLog' = [kafkaLog EXCEPT
                                  ![i] = KafkaDeliverEach(@, producer[i], evs)]
                /\ IF ContinuesAfter(rec)
                   THEN /\ ei' = [ei EXCEPT ![i] = IF lastEntry THEN 0 ELSE @ + 1]
                        /\ di' = [di EXCEPT ![i] = IF lastEntry THEN @ + 1 ELSE @]
                        /\ pc' = [pc EXCEPT ![i] = IF lastEntry /\ lastDevice
                                                   THEN "sleep" ELSE "process"]
                        /\ UNCHANGED cause
                   ELSE /\ pc' = [pc EXCEPT ![i] = "finally"]
                        /\ cause' = [cause EXCEPT ![i] = "processing_error"]
                        /\ UNCHANGED <<di, ei>>
    /\ stopRun' = 0
    /\ UNCHANGED files
    /\ UNCHANGED decoding
    /\ UNCHANGED <<counters, globals, kafkaUp, rl_pc, reloads, runs, producer, scan_count,
                   devices, raised, startSnap, stopAt>>

\* Line 301: await asyncio.sleep(0) returns.
Sleep(i) ==
    /\ pc[i] = "sleep"
    /\ pc' = [pc EXCEPT ![i] = "head"]
    /\ stopRun' = 0
    /\ UNCHANGED files
    /\ UNCHANGED decoding
    /\ UNCHANGED <<counters, globals, kafkaUp, rl_pc, reloads, runs, producer, scan_count,
                   devices, di, ei, logs, raised, cause, startSnap, stopAt>>

\* An exit that does not close the producer.
CloseProducerMutant(prod) == prod

\* Lines 309-313: the finally clause; the coroutine then returns or raises.
CloseProducer(prod) ==
    IF prod.some THEN [prod EXCEPT !.closed = @ + 1] ELSE prod

Finally(i) ==
    /\ pc[i] = "finally"
    /\ producer' = [producer EXCEPT ![i] = CloseProducer(@)]
    /\ pc' = [pc EXCEPT ![i] = "done"]
    /\ stopRun' = 0
    /\ UNCHANGED files
    /\ UNCHANGED decoding
    /\ UNCHANGED <<counters, globals, kafkaUp, rl_pc, reloads, runs, scan_count, devices,
                   di, ei, logs, raised, cause, startSnap, stopAt>>

(***************************************************************************)
(* The controller: calls made from outside the loop's thread.              *)
(***************************************************************************)
\* Line 320.
\* A stop that toggles the flag.
StopValueMutant(active) == ~active

StopValue(active) == FALSE

\* Where the first stop call of an invocation's current cycle landed: in
\* its setup (before line 177), at the loop head, during the discovery
\* await, before the checkpoint of line 190 is evaluated, after it and
\* before the first device is looked at, later in the batch, or at the
\* await of line 301.
StopLanding(i) ==
    IF stopAt[i] \notin {"none", "rearmed"} THEN stopAt[i]
    ELSE IF pc[i] \in {"setup", "activate"} THEN "setup"
    ELSE IF pc[i] = "head" THEN "head"
    ELSE IF pc[i] = "discover" THEN "discover"
    ELSE IF pc[i] = "check" THEN "check"
    ELSE IF pc[i] = "process" /\ di[i] = 1 /\ ei[i] = 0 THEN "preprocess"
    ELSE IF pc[i] = "process" THEN "process"
    ELSE IF pc[i] = "sleep" THEN "sleep"
    ELSE stopAt[i]

stop_scanning ==
    /\ stopRun < MaxStopRun
    /\ stopRun' = stopRun + 1
    /\ UNCHANGED files
    /\ UNCHANGED decoding
    /\ _scanning_active' = StopValue(_scanning_active)
    /\ stopAt' = [i \in Loops |-> StopLanding(i)]
    /\ UNCHANGED <<counters, _gui_callback, config, KAFKA_BROKER, KAFKA_TOPIC, kafkaUp,
                   rl_pc, reloads, runs, locals, logs, startSnap>>

\* Lines 22-26.
set_gui_callback(callback_func) ==
    /\ _gui_callback # callback_func
    /\ cbSets < MaxCallbackSets
    /\ cbSets' = cbSets + 1
    /\ _gui_callback' = callback_func
    /\ stopRun' = 0
    /\ UNCHANGED files
    /\ UNCHANGED decoding
    /\ UNCHANGED <<_scanning_active, config, KAFKA_BROKER, KAFKA_TOPIC, kafkaUp,
                   flips, rl_pc, reloads, runs, locals, logs, startSnap, stopAt>>

\* Line 327: config = load_config().
ReloadLoad ==
    /\ rl_pc = "idle"
    /\ reloads < MaxReloads
    /\ reloads' = reloads + 1
    /\ \E file \in ConfigFiles :
          /\ config_file' = file
          /\ config' = load_config(file)
    /\ rl_ret' = NoReturn
    /\ rl_pc' = "loaded"
    /\ stopRun' = 0
    /\ UNCHANGED decoding
    /\ UNCHANGED <<counters, _scanning_active, _gui_callback, KAFKA_BROKER, KAFKA_TOPIC,
                   kafkaUp, runs, locals, logs, startSnap, stopAt>>

\* Line 330.
ReloadSetBroker ==
    /\ rl_pc = "loaded"
    /\ KAFKA_BROKER' = EnvironGet("KAFKA_BROKER", config.broker)
    /\ rl_pc' = "broker_set"
    /\ stopRun' = 0
    /\ UNCHANGED files
    /\ UNCHANGED decoding
    /\ UNCHANGED <<counters, _scanning_active, _gui_callback, config, KAFKA_TOPIC, kafkaUp,
                   reloads, runs, locals, logs, startSnap, stopAt>>

\* Lines 331-335.
ReloadSetTopic ==
    /\ rl_pc = "broker_set"
    /\ KAFKA_TOPIC' = EnvironGet("KAFKA_TOPIC", config.topic)
    /\ rl_pc' = "idle"
    /\ rl_ret' = ReloadReturn(config)
    /\ stopRun' = 0
    /\ UNCHANGED config_file
    /\ UNCHANGED decoding
    /\ UNCHANGED <<counters, _scanning_active, _gui_callback, config, KAFKA_BROKER, kafkaUp,
                   reloads, runs, locals, logs, startSnap, stopAt>>

\* The environment: the Kafka broker goes down or comes back.
BrokerFlips ==
    /\ flips < MaxBrokerFlips
    /\ flips' = flips + 1
    /\ kafkaUp' = ~kafkaUp
    /\ stopRun' = 0
    /\ UNCHANGED files
    /\ UNCHANGED decoding
    /\ UNCHANGED <<globals, cbSets, rl_pc, reloads, runs, locals, logs, startSnap,
                   stopAt>>

(***************************************************************************)
(* The specifications.                                                     *)
(***************************************************************************)
LoopStep(i) ==
    \/ Setup(i)
    \/ Activate(i)
    \/ LoopHead(i)
    \/ DiscoverReturns(i)
    \/ PostDiscoveryCheck(i)
    \/ ProcessDevice(i)
    \/ ProcessEntry(i)
    \/ Sleep(i)
    \/ Finally(i)

\* One invocation at a time (a second call only after the first has
\* returned), with the stop and observer calls of the controller and the
\* failures of discovery.
Next ==
    \/ Start(1)
    \/ LoopStep(1)
    \/ DiscoverFails(1)
    \/ Cancelled(1)
    \/ stop_scanning
    \/ \E cb \in {NoCallback} \cup Callbacks : set_gui_callback(cb)

\* load_config() found no file at import and wrote the defaults.
InitDefaults == Init /\ config_file = "absent"

Spec == InitDefaults /\ [][Next]_vars

\* One invocation at a time with its two sinks: the observer is set or
\* replaced and the Kafka broker goes down or comes back while it runs.
NextSinks ==
    \/ Start(1)
    \/ LoopStep(1)
    \/ \E cb \in {NoCallback} \cup Callbacks : set_gui_callback(cb)
    \/ BrokerFlips

SpecSinks == InitDefaults /\ [][NextSinks]_vars

\* One invocation at a time, with reload_config() running in another
\* thread.
NextReload ==
    \/ Start(1)
    \/ LoopStep(1)
    \/ stop_scanning
    \/ ReloadLoad
    \/ ReloadSetBroker
    \/ ReloadSetTopic

SpecReload == Init /\ [][NextReload]_vars

\* The invocation of slot 1 as in Next, the GUI registering its observer,
\* and a second scan_ble_devices() call (slot 2) followed up to line 177,
\* its last write to the state the invocations share.
NextRearm ==
    \/ Start(1)
    \/ LoopStep(1)
    \/ DiscoverFails(1)
    \/ Cancelled(1)
    \/ stop_scanning
    \/ set_gui_callback("observer")
    \/ Start(2)
    \/ Setup(2)
    \/ Activate(2)

SpecRearm == InitDefaults /\ [][NextRearm]_vars

\* The same without the observer calls; every await of the invocation of
\* slot 1 returns and the invocation is scheduled.
NextStop ==
    \/ Start(1)
    \/ LoopStep(1)
    \/ DiscoverFails(1)
    \/ Cancelled(1)
    \/ stop_scanning
    \/ Start(2)
    \/ Setup(2)
    \/ Activate(2)

FairSpecStop == InitDefaults /\ [][NextStop]_vars /\ WF_vars(LoopStep(1))

\* Two invocations that may overlap, sharing _scanning_active, with the
\* stop calls of the controller.
NextConc ==
    \/ \E i \in Loops : Start(i)
    \/ \E i \in Loops : LoopStep(i)
    \/ \E i \in Loops : DiscoverFails(i)
    \/ \E i \in Loops : Cancelled(i)
    \/ stop_scanning

SpecConc == InitDefaults /\ [][NextConc]_vars

\* Lines 201-296 alone: one (company_code, data) item goes through the
\* if/elif chain.
DecodeItem ==
    /\ beacon = NotDecoded
    /\ item # NoItem
    /\ beacon' = Decode(item.company_code, item.data)
    /\ UNCHANGED <<counters, globals, kafkaUp, rl_pc, reloads, runs, stopRun,
                   locals, logs, startSnap, stopAt, files, item>>

InitDecode ==
    /\ Imported
    /\ config_file = "absent"
    /\ kafkaUp
    /\ item \in Items
    /\ beacon = NotDecoded

SpecDecode == InitDecode /\ [][DecodeItem]_vars

(***************************************************************************)
(* Vocabulary of the properties.                                           *)
(***************************************************************************)
CycleEvents(log, c) == SelectSeq(log, LAMBDA x : x.ev.cycle = c)

\* Sink invocations made so far for the batch of the current cycle.
BatchDelivered(i) ==
    Len(CycleEvents(guiLog[i], scan_count[i]))
    + Len(CycleEvents(kafkaLog[i], scan_count[i]))

\* The batch of the current cycle holds an entry that decodes to an event.
BatchHasEvents(i) ==
    \E d \in 1..Len(devices[i]) :
        \E e \in 1..Len(devices[i][d].manufacturer_data) :
            LET entry == devices[i][d].manufacturer_data[e]
            IN  IsEvent(Decode(entry.company_code, entry.data))

\* The invocation has left its loop, or is still before the checkpoint of
\* line 190, and no sink was invoked for the current batch.
Discarded(i) ==
    /\ pc[i] \in {"discover", "check", "finally", "done"}
    /\ BatchDelivered(i) = 0

\* No sink was invoked for the current batch, and the invocation is not
\* on its way to another cycle.
NothingDelivered(i) ==
    /\ pc[i] \in {"discover", "check", "process", "finally", "done"}
    /\ BatchDelivered(i) = 0

(***************************************************************************)
(* C1 as stated: a stop call that lands during the discovery await, or     *)
(* after it and before the first device of the batch is processed,         *)
(* produces no event for that batch and ends the loop.                     *)
(***************************************************************************)
C1_StopBeforeProcessingDiscards ==
    \A i \in Loops :
        stopAt[i] \in {"discover", "check", "preprocess"} => NothingDelivered(i)

(***************************************************************************)
(* C1 amended: a stop call that lands during the discovery await, or after *)
(* it and before the checkpoint of line 190 reads the flag, with no        *)
(* scan_ble_devices() call setting the flag again before that checkpoint,  *)
(* produces no event for that batch and ends the loop.                     *)
(***************************************************************************)
C1_StopBeforeCheckDiscards ==
    \A i \in Loops : stopAt[i] \in {"discover", "check"} => Discarded(i)

C1_Witness ==
    /\ stopAt[1] = "discover"
    /\ pc[1] = "done"
    /\ cause[1] = "stop_check"
    /\ producer[1].some
    /\ _gui_callback # NoCallback
    /\ BatchHasEvents(1)

(***************************************************************************)
(* C2: each decoded event is handed once to the observer callback (if one  *)
(* is set) and once to the producer (if there is one), whether or not the  *)
(* callback raises and whether or not the send raises, and the iteration   *)
(* then moves on to the next entry.                                        *)
(***************************************************************************)
EntryAt(i, d, e) == devices[i][d].manufacturer_data[e]

CurrentEvent(i) ==
    LET entry == EntryAt(i, di[i], ei[i])
    IN  Event(scan_count[i], di[i], ei[i],
              Decode(entry.company_code, entry.data))

\* The invocation handles the entry it is at.
EntryStep(i) ==
    /\ pc[i] = "process"
    /\ ei[i] >= 1
    /\ <<pc[i], di[i], ei[i], guiLog[i], kafkaLog[i]>>'
         # <<pc[i], di[i], ei[i], guiLog[i], kafkaLog[i]>>

C2_EachSinkOnceIndependently ==
    [][\A i \in Loops :
         (EntryStep(i) /\ IsEvent(CurrentEvent(i).data)) =>
            /\ guiLog'[i] =
                 IF _gui_callback # NoCallback
                 THEN Append(guiLog[i], [ev |-> CurrentEvent(i),
                                         callback |-> _gui_callback])
                 ELSE guiLog[i]
            /\ kafkaLog'[i] =
                 IF producer[i].some
                 THEN Append(kafkaLog[i], [ev |-> CurrentEvent(i),
                                           topic |-> KAFKA_TOPIC,
                                           raised |-> ~kafkaUp])
                 ELSE kafkaLog[i]
            /\ pc'[i] \in {"process", "sleep"}
            /\ <<di[i], ei[i]>>' # <<di[i], ei[i]>>]_vars

\* An event whose callback raised and whose send raised reached both sinks,
\* and a later event was sent after it.
C2_Witness ==
    \E k \in 1..(Len(kafkaLog[1]) - 1) :
        /\ kafkaLog[1][k].raised
        /\ \E g \in 1..Len(guiLog[1]) :
              /\ guiLog[1][g].ev = kafkaLog[1][k].ev
              /\ CallbackRaises(guiLog[1][g].callback)

(***************************************************************************)
(* C3: a producer that was created is closed exactly once on every way out *)
(* of the loop, never before the loop is left, and nothing is sent on it   *)
(* once it is closed.                                                      *)
(***************************************************************************)
C3_ClosedOnce ==
    \A i \in Loops :
        /\ producer[i].closed <= 1
        /\ producer[i].closed = 1 => pc[i] = "done"
        /\ (pc[i] = "done" /\ producer[i].some) => producer[i].closed = 1
        /\ pc[i] = "done" =>
              cause[i] \in {"stop_head", "stop_check", "cancelled",
                            "source_error", "processing_error"}

C3_NoSendAfterClose ==
    \A i \in Loops :
        (kafkaLog'[i] # kafkaLog[i] /\ kafkaLog'[i] # << >>) =>
            (producer[i].some /\ producer[i].closed = 0)

C3_ProducerClosedExactlyOnce ==
    []C3_ClosedOnce /\ [][C3_NoSendAfterClose]_vars

C3_Witness ==
    /\ pc[1] = "done"
    /\ cause[1] = "processing_error"
    /\ producer[1].closed = 1
    /\ kafkaLog[1] # << >>

(***************************************************************************)
(* C4 as stated: when discovery fails, the invocation raises the error to  *)
(* its caller, and the flag no longer reads Running once no invocation is  *)
(* executing.                                                              *)
(***************************************************************************)
NoLoopExecuting == \A j \in Loops : pc[j] \in {"idle", "done"}

C4_SourceErrorSurfaced ==
    \A i \in Loops :
        (pc[i] = "done" /\ cause[i] = "source_error") =>
            /\ raised[i]
            /\ NoLoopExecuting => ~_scanning_active

(***************************************************************************)
(* C6: a stop_scanning() call, in whatever state, clears the flag and      *)
(* changes nothing else (no invocation moves, no event is produced), and a *)
(* call that follows another one changes nothing at all.                   *)
(***************************************************************************)
C6_StopSafeAndIdempotent ==
    [][stopRun' > stopRun =>
         /\ _scanning_active' = FALSE
         /\ UNCHANGED <<_gui_callback, config, KAFKA_BROKER, KAFKA_TOPIC,
                        kafkaUp, locals, logs>>
         /\ stopRun >= 1 => UNCHANGED _scanning_active]_vars

\* The second of two calls in a row, made while a batch is being processed.
C6_Witness ==
    /\ stopRun = 2
    /\ pc[1] = "process"
    /\ ~_scanning_active

(***************************************************************************)
(* Positions <<d, e>> of a batch, in the order the for loops visit them.   *)
(***************************************************************************)
RECURSIVE PositionsFrom(_, _)
PositionsFrom(batch, d) ==
    IF d > Len(batch) THEN << >>
    ELSE [e \in 1..Len(batch[d].manufacturer_data) |-> <<d, e>>]
         \o PositionsFrom(batch, d + 1)

BatchPositions(i) == PositionsFrom(devices[i], 1)

\* The loops are past the entry at pos.
Processed(i, pos) ==
    \/ pos[1] < di[i]
    \/ pos[1] = di[i] /\ ei[i] >= 1 /\ pos[2] < ei[i]

Decodes(i, pos) ==
    IsEvent(Decode(EntryAt(i, pos[1], pos[2]).company_code,
                   EntryAt(i, pos[1], pos[2]).data))

\* devices[i] is the batch of cycle scan_count[i] and is being, or has
\* been, iterated.
InBatch(i) == pc[i] \in {"process", "sleep", "head"}

SentPositions(i) ==
    [k \in 1..Len(CycleEvents(kafkaLog[i], scan_count[i])) |->
        <<CycleEvents(kafkaLog[i], scan_count[i])[k].ev.d,
          CycleEvents(kafkaLog[i], scan_count[i])[k].ev.e>>]

ShownPositions(i) ==
    [k \in 1..Len(CycleEvents(guiLog[i], scan_count[i])) |->
        <<CycleEvents(guiLog[i], scan_count[i])[k].ev.d,
          CycleEvents(guiLog[i], scan_count[i])[k].ev.e>>]

Range(seq) == {seq[k] : k \in 1..Len(seq)}

(***************************************************************************)
(* C7: an Eddystone-URL entry with a scheme index of 4 or more, or with a  *)
(* byte of 128 or more in its body, yields no event and does not end the   *)
(* cycle: only a device that raises does; once the batch is done, every    *)
(* entry of it that decodes has been sent.                                 *)
(***************************************************************************)
IsBadUrlEntry(entry) ==
    /\ entry.company_code = 170
    /\ Len(entry.data) >= 20
    /\ entry.data[1] = 170
    /\ entry.data[2] = 254
    /\ entry.data[3] = 16
    /\ \/ entry.data[4] >= 4
       \/ \E k \in 5..Len(entry.data) : entry.data[k] >= 128

C7_BadEntrySkippedOnly ==
    \A i \in Loops :
        /\ cause[i] = "processing_error" => devices[i][di[i]].raises
        /\ InBatch(i) =>
              \A pos \in Range(SentPositions(i)) \cup Range(ShownPositions(i)) :
                  ~IsBadUrlEntry(EntryAt(i, pos[1], pos[2]))
        /\ (pc[i] \in {"sleep", "head"} /\ producer[i].some) =>
              \A pos \in Range(BatchPositions(i)) :
                  Decodes(i, pos) => pos \in Range(SentPositions(i))

\* The batch of cycle 1 began with a bad entry; the entry after it and the
\* next device were sent, and cycle 2 has begun.
C7_Witness ==
    /\ pc[1] = "discover"
    /\ scan_count[1] = 2
    /\ devices[1] # << >>
    /\ devices[1][1].manufacturer_data # << >>
    /\ IsBadUrlEntry(EntryAt(1, 1, 1))
    /\ \E k \in 1..Len(kafkaLog[1]) :
          kafkaLog[1][k].ev.cycle = 1 /\ kafkaLog[1][k].ev.d = 1
          /\ kafkaLog[1][k].ev.e = 2
    /\ \E k \in 1..Len(kafkaLog[1]) :
          kafkaLog[1][k].ev.cycle = 1 /\ kafkaLog[1][k].ev.d = 2

(***************************************************************************)
(* C8: each sink receives the events in the order (cycle, device, entry);  *)
(* what has been sent for the current batch is exactly its decodable       *)
(* entries visited so far, in visiting order.                              *)
(***************************************************************************)
Before(a, b) ==
    \/ a.cycle < b.cycle
    \/ a.cycle = b.cycle /\ a.d < b.d
    \/ a.cycle = b.cycle /\ a.d = b.d /\ a.e < b.e

InOrder(log) ==
    \A k \in 1..(Len(log) - 1) : Before(log[k].ev, log[k + 1].ev)

C8_DeliveredInBatchOrder ==
    \A i \in Loops :
        /\ InOrder(guiLog[i])
        /\ InOrder(kafkaLog[i])
        /\ (InBatch(i) /\ producer[i].some) =>
              SentPositions(i) =
                 SelectSeq(BatchPositions(i),
                           LAMBDA pos : Processed(i, pos) /\ Decodes(i, pos))

\* One device gave an iBeacon and then an AltBeacon event (company ids
\* 0x004C and 0x0118), and an event of cycle 2 came after them.
C8_Witness ==
    /\ Len(kafkaLog[1]) >= 3
    /\ kafkaLog[1][1].ev.data.type = "iBeacon"
    /\ kafkaLog[1][2].ev.data.type = "AltBeacon"
    /\ kafkaLog[1][1].ev.d = kafkaLog[1][2].ev.d
    /\ kafkaLog[1][1].ev.cycle = 1
    /\ kafkaLog[1][Len(kafkaLog[1])].ev.cycle = 2

(***************************************************************************)
(* C5: once the flag is cleared while an invocation is in its loop, a      *)
(* checkpoint that reads the cleared flag leaves the loop, an invocation   *)
(* that left the loop starts no discovery again, and, unless a             *)
(* scan_ble_devices() call sets the flag again, the invocation eventually  *)
(* returns with its producer closed (every await returning, every          *)
(* invocation scheduled fairly).                                           *)
(***************************************************************************)
Running(i) == pc[i] \in {"head", "discover", "check", "process", "sleep"}

Exited(i) == pc[i] = "done" /\ (producer[i].some => producer[i].closed = 1)

C5_CheckpointLeavesLoop ==
    \A i \in Loops :
        /\ (pc[i] \in {"head", "check"} /\ ~_scanning_active
            /\ pc'[i] # pc[i]) => pc'[i] = "finally"
        /\ pc[i] = "finally" => pc'[i] \in {"finally", "done"}

C5_StopLeadsToExit ==
    /\ (Running(1) /\ ~_scanning_active) ~> (Exited(1) \/ _scanning_active)
    /\ [][C5_CheckpointLeavesLoop]_vars

C5_Witness ==
    /\ pc[1] = "done"
    /\ cause[1] \in {"stop_head", "stop_check"}
    /\ scan_count[1] >= 1
    /\ producer[1].closed = 1
    /\ ~_scanning_active

(***************************************************************************)
(* C9 as stated: every event of a run is published through the broker and  *)
(* to the topic that were in effect when the run created its producer,     *)
(* whatever reload_config() did since; once a reload has returned, the     *)
(* globals hold what it loaded.                                            *)
(***************************************************************************)
C9_RunKeepsItsSnapshot ==
    /\ \A i \in Loops :
          \A k \in 1..Len(kafkaLog[i]) :
              /\ producer[i].broker = startSnap[i].broker
              /\ kafkaLog[i][k].topic = startSnap[i].topic
    /\ (rl_pc = "idle" /\ reloads >= 1) =>
          /\ KAFKA_BROKER = EnvironGet("KAFKA_BROKER", config.broker)
          /\ KAFKA_TOPIC = EnvironGet("KAFKA_TOPIC", config.topic)

(***************************************************************************)
(* C10 as stated: the pair (KAFKA_BROKER, KAFKA_TOPIC) another thread can  *)
(* read, and the pair (broker of the producer, topic of the send) of every *)
(* event, are the broker and the topic of one and the same snapshot.       *)
(***************************************************************************)
Snapshots ==
    {[broker |-> EnvironGet("KAFKA_BROKER", c.broker),
      topic |-> EnvironGet("KAFKA_TOPIC", c.topic)] : c \in LoadConfigResults}

C10_NoMixedSnapshot ==
    /\ [broker |-> KAFKA_BROKER, topic |-> KAFKA_TOPIC] \in Snapshots
    /\ \A i \in Loops :
          \A k \in 1..Len(kafkaLog[i]) :
              [broker |-> producer[i].broker, topic |-> kafkaLog[i][k].topic]
                 \in Snapshots

(***************************************************************************)
(* C11 as stated: when load_config() could not parse the file, the         *)
(* reload_config() call that made it leaves KAFKA_BROKER and KAFKA_TOPIC   *)
(* as they were before the call and reports the failure to its caller      *)
(* instead of returning a configuration.                                   *)
(***************************************************************************)
ReloadFailed == rl_pc # "idle" /\ config_file = "unparsable"

C11_FailedReloadKeepsSnapshot ==
    [][ReloadFailed =>
         /\ KAFKA_BROKER' = KAFKA_BROKER
         /\ KAFKA_TOPIC' = KAFKA_TOPIC
         /\ rl_pc' = "idle" => rl_ret'.raised]_vars

(***************************************************************************)
(* C12 as stated: an item for which none of the iBeacon, Eddystone-UID and *)
(* Eddystone-URL gates (company id, minimum length and marker bytes        *)
(* together) holds yields one AltBeacon event with beacon_id = hex of      *)
(* data[2:22] when its payload has 24 bytes or more, and no event when it  *)
(* has 23 bytes or less.                                                   *)
(***************************************************************************)
IBeaconGate(it) ==
    /\ it.company_code = 76
    /\ Len(it.data) >= 23
    /\ it.data[1] = 2
    /\ it.data[2] = 21

EddystoneUidGate(it) ==
    /\ it.company_code = 170
    /\ Len(it.data) >= 20
    /\ it.data[1] = 170
    /\ it.data[2] = 254
    /\ it.data[3] = 0

EddystoneUrlGate(it) ==
    /\ it.company_code = 170
    /\ Len(it.data) >= 20
    /\ it.data[1] = 170
    /\ it.data[2] = 254
    /\ it.data[3] = 16

Decoded == beacon # NotDecoded

C12_AltBeaconFallback ==
    (Decoded /\ ~IBeaconGate(item) /\ ~EddystoneUidGate(item)
     /\ ~EddystoneUrlGate(item)) =>
        IF Len(item.data) >= 24
        THEN beacon = [type |-> "AltBeacon",
                       beacon_id |-> Hex(SubSeq(item.data, 3, 22))]
        ELSE ~IsEvent(beacon)

(***************************************************************************)
(* C13: for company id 0x004C and a payload of 23 bytes or more beginning  *)
(* 0x02 0x15, the event is an iBeacon whose major is 256*data[18]+data[19] *)
(* and minor 256*data[20]+data[21], both in 0..65535, whose uuid spells    *)
(* data[2:18] in hexadecimal in the order of the bytes, and whose tx_power *)
(* is data[22] read as a signed byte, in -128..127.                        *)
(***************************************************************************)
C13_IBeaconFields ==
    (Decoded /\ IBeaconGate(item)) =>
        /\ beacon.type = "iBeacon"
        /\ beacon.major = 256 * item.data[19] + item.data[20]
        /\ beacon.minor = 256 * item.data[21] + item.data[22]
        /\ beacon.major \in 0..65535
        /\ beacon.minor \in 0..65535
        /\ SelectSeq(beacon.uuid, LAMBDA c : c # "-")
              = Hex(SubSeq(item.data, 3, 18))
        /\ Len(beacon.uuid) = 36
        /\ beacon.tx_power = IF item.data[23] <= 127 THEN item.data[23]
                              ELSE item.data[23] - 256
        /\ beacon.tx_power \in -128..127
        /\ item.data[23] = 255 => beacon.tx_power = -1
        /\ item.data[23] = 127 => beacon.tx_power = 127
        /\ item.data[23] = 128 => beacon.tx_power = -128

\* A payload longer than 23 bytes with major 0x01FF, minor 0xFF01 and a
\* power byte of 0xFF.
C13_Witness ==
    /\ Decoded
    /\ IBeaconGate(item)
    /\ Len(item.data) > 23
    /\ beacon.major = 511
    /\ beacon.minor = 65281
    /\ beacon.tx_power = -1

(***************************************************************************)
(* C14: an item whose payload is shorter than the minimum length of the    *)
(* family of its company id (23 for 0x004C, 20 for 0x00AA, 24 for any      *)
(* other) yields no event, and every event that is produced carries its    *)
(* fields at full length.                                                  *)
(***************************************************************************)
FamilyMinLen(company_code) ==
    IF company_code = 76 THEN 23
    ELSE IF company_code = 170 THEN 20
    ELSE 24

FieldsComplete(rec) ==
    /\ rec.type = "iBeacon" => Len(rec.uuid) = 36
    /\ rec.type = "Eddystone-UID" =>
          Len(rec.namespace) = 20 /\ Len(rec.instance) = 12
    /\ rec.type = "Eddystone-URL" => Len(rec.url) >= 1
    /\ rec.type = "AltBeacon" => Len(rec.beacon_id) = 40

C14_ShortPayloadNoEvent ==
    Decoded =>
        /\ Len(item.data) < FamilyMinLen(item.company_code) => ~IsEvent(beacon)
        /\ IsEvent(beacon) => FieldsComplete(beacon)

\* A 22-byte payload with the iBeacon markers and company id 0x004C.
C14_Witness ==
    /\ Decoded
    /\ item.company_code = 76
    /\ Len(item.data) = 22
    /\ item.data[1] = 2
    /\ item.data[2] = 21
    /\ beacon = NoRecord

(***************************************************************************)
(* C15 as stated: the observer of a run is the one that was set when the   *)
(* run entered its loop: every event of the run shown to an observer is    *)
(* shown to that one, and if there was one, every event of a finished      *)
(* batch was shown, whatever set_gui_callback() calls were made since.     *)
(***************************************************************************)
C15_ObserverFixedAtStart ==
    \A i \in Loops :
        /\ \A k \in 1..Len(guiLog[i]) :
              guiLog[i][k].callback = startSnap[i].callback
        /\ (pc[i] \in {"sleep", "head"} /\ scan_count[i] >= 1
            /\ startSnap[i].callback # NoCallback) =>
              \A pos \in Range(BatchPositions(i)) :
                  Decodes(i, pos) => pos \in Range(ShownPositions(i))

(***************************************************************************)
(* C16: a stop_scanning() call that lands while a batch is being processed *)
(* (after the checkpoint of line 190 let the batch through) does not cut   *)
(* the batch: the for loops go on to its last entry, every entry that      *)
(* decodes is delivered, no discovery is started again, and the loop-head  *)
(* check that follows leaves the loop. Only a device that raises or a      *)
(* cancellation of the task ends the run another way.                      *)
(***************************************************************************)
StoppedMidBatch(i) == stopAt[i] \in {"preprocess", "process"}

C16_BatchCompleted ==
    \A i \in Loops :
        StoppedMidBatch(i) =>
            /\ pc[i] \in {"process", "sleep", "head", "finally", "done"}
            /\ pc[i] \in {"finally", "done"} =>
                  cause[i] \in {"stop_head", "processing_error", "cancelled"}
            /\ cause[i] = "processing_error" => devices[i][di[i]].raises
            /\ ((pc[i] \in {"sleep", "head"} \/ cause[i] = "stop_head")
                /\ producer[i].some) =>
                  \A pos \in Range(BatchPositions(i)) :
                      Decodes(i, pos) => pos \in Range(SentPositions(i))

C16_ExitsAtLoopHead ==
    \A i \in Loops :
        (StoppedMidBatch(i) /\ pc[i] = "head" /\ pc'[i] # "head") =>
            (pc'[i] = "finally" /\ cause'[i] = "stop_head")

C16_StopDoesNotPreempt ==
    []C16_BatchCompleted /\ [][C16_ExitsAtLoopHead]_vars

\* The stop landed after the first entry of a batch; the entries after it
\* were sent, and the run ended at the loop head.
C16_Witness ==
    /\ stopAt[1] = "process"
    /\ pc[1] = "done"
    /\ cause[1] = "stop_head"
    /\ producer[1].closed = 1
    /\ Len(CycleEvents(kafkaLog[1], scan_count[1])) >= 2

(***************************************************************************)
(* C17: no item of a batch gives more than one event to a sink, so a sink  *)
(* never has more events of a batch than the batch has items; and the type *)
(* of an event follows from the company id of its item: iBeacon only for   *)
(* 0x004C, Eddystone only for 0x00AA, AltBeacon only for any other.        *)
(***************************************************************************)
NoRepeat(seq) == \A k, l \in 1..Len(seq) : seq[k] = seq[l] => k = l

TypeOfOneFamily(i, x) ==
    LET cc == EntryAt(i, x.ev.d, x.ev.e).company_code
    IN  /\ x.ev.data.type \in {"iBeacon", "Eddystone-UID", "Eddystone-URL",
                                "AltBeacon"}
        /\ x.ev.data.type = "iBeacon" <=> cc = 76
        /\ x.ev.data.type \in {"Eddystone-UID", "Eddystone-URL"} <=> cc = 170

C17_AtMostOneEventPerItem ==
    \A i \in Loops :
        InBatch(i) =>
            /\ NoRepeat(SentPositions(i))
            /\ NoRepeat(ShownPositions(i))
            /\ Len(SentPositions(i)) <= Len(BatchPositions(i))
            /\ Len(ShownPositions(i)) <= Len(BatchPositions(i))
            /\ \A k \in 1..Len(CycleEvents(kafkaLog[i], scan_count[i])) :
                  TypeOfOneFamily(i, CycleEvents(kafkaLog[i], scan_count[i])[k])
            /\ \A k \in 1..Len(CycleEvents(guiLog[i], scan_count[i])) :
                  TypeOfOneFamily(i, CycleEvents(guiLog[i], scan_count[i])[k])

\* A finished batch of four items, one of them a 24-byte iBeacon payload,
\* gave three events to each sink.
C17_Witness ==
    /\ pc[1] = "sleep"
    /\ Len(BatchPositions(1)) = 4
    /\ Len(SentPositions(1)) = 3
    /\ Len(ShownPositions(1)) = 3
    /\ \E k \in 1..3 : kafkaLog[1][k].ev.data.type = "iBeacon"

(***************************************************************************)
(* C18 as stated: once stop_scanning() has been called after an invocation *)
(* began (its setup before line 177 included) and before it exits, the     *)
(* next checkpoint the invocation evaluates (line 181 or line 190) leaves  *)
(* the loop, whatever scan_ble_devices() calls were started in between.    *)
(***************************************************************************)
StopRequested(i) == stopAt[i] # "none"

C18_StopNeverLost ==
    [][\A i \in Loops :
         (StopRequested(i) /\ pc[i] \in {"head", "check"} /\ pc'[i] # pc[i])
            => pc'[i] = "finally"]_vars

(***************************************************************************)
(* C19 as stated: no two invocations of scan_ble_devices() are in their    *)
(* loops (discovering or processing a batch) at the same time.             *)
(***************************************************************************)
Scanning(i) == pc[i] \in {"discover", "check", "process"}

C19_OneLoopActive ==
    \A i, j \in Loops : (Scanning(i) /\ Scanning(j)) => i = j

(***************************************************************************)
(* C20: an invocation whose create_kafka_producer() returned None keeps    *)
(* running without a producer to its end: nothing is sent and nothing is   *)
(* closed, no producer appears later even if the broker comes back, and    *)
(* each event that is decoded is still handed to the observer callback     *)
(* that is set.                                                            *)
(***************************************************************************)
WithoutProducer(i) ==
    pc[i] \notin {"idle", "setup"} /\ ~producer[i].some

C20_NothingOnMissingProducer ==
    \A i \in Loops :
        WithoutProducer(i) =>
            /\ kafkaLog[i] = << >>
            /\ producer[i] = NoProducer

C20_ObserverStillServed ==
    \A i \in Loops :
        WithoutProducer(i) =>
            /\ pc'[i] # "setup" => ~producer'[i].some
            /\ (EntryStep(i) /\ IsEvent(CurrentEvent(i).data)) =>
                  /\ guiLog'[i] =
                        IF _gui_callback # NoCallback
                        THEN Append(guiLog[i], [ev |-> CurrentEvent(i),
                                                callback |-> _gui_callback])
                        ELSE guiLog[i]
                  /\ pc'[i] \in {"process", "sleep"}

C20_RunsWithoutProducer ==
    []C20_NothingOnMissingProducer /\ [][C20_ObserverStillServed]_vars

\* The broker was down at line 166 and came back; the run is in its second
\* cycle and has shown events of both cycles to the observer.
C20_Witness ==
    /\ WithoutProducer(1)
    /\ kafkaUp
    /\ scan_count[1] = 2
    /\ pc[1] = "sleep"
    /\ \E k \in 1..Len(guiLog[1]) : guiLog[1][k].ev.cycle = 1
    /\ \E k \in 1..Len(guiLog[1]) : guiLog[1][k].ev.cycle = 2

=============================================================================
